---- MODULE Spec2Model ----
(***************************************************************************)
(* Model of CSC3081_Project/main.cpp: the terrain generator and            *)
(* classifier run by init(), and the GLUT callbacks update(), display()    *)
(* and keyboardHandler() that drive the wind-turbine animation.            *)
(*                                                                         *)
(* Fixed-point units (the program uses float):                             *)
(*   windSpeed        tenths            (1.0f  is 10)                      *)
(*   bladeRotation    tenths of degree  (360.0f is 3600)                   *)
(*   sceneAngle       hundredths of degree (the global _angle, 0.02f is 2) *)
(*   timeAccumulator  milliseconds      (0.016f is 16)                     *)
(*   nacelle_yaw      thousandths of degree                                *)
(*   towerSway, terrain heights   thousandths                              *)
(*   rf               hundredths        ((rand() % 100) / 100.0f)          *)
(*   turbineParams lengths        tenths                                   *)
(* Not modelled: camera, lighting and projection state, texture handles    *)
(* and texture loading, the vertices emitted by the draw routines.         *)
(***************************************************************************)
EXTENDS Integers, Sequences, FiniteSets, TLC

\* ---------------------------------------------------------------- bounds
\* Side of the terrain in cells (50 in the program), scaled down.
TERRAIN_SIZE == 3

\* Number of update() calls explored from the state after construction.
MaxUpdates == 2

\* Number of update() calls explored from a sampled animation state.
MaxAnimUpdates == 3

\* Number of enabled ticks that precede the sampled animation states.
AnimStartTicks == 1800

\* rand() calls made by other code ahead of a run of the classifier.
MaxConsume == 3

\* Number of states of the stand-in pseudo-random generator.
RandModulus == 4096

\* Enabled ticks sampled for the oscillations: 32 s of accumulated time, more
\* than the 10 pi seconds after which yaw and sway both repeat.
OscTicks == 2000

\* Tessellation of the nacelle ellipsoid (20 in the program) and of the
\* foundation's torus ring (24 by 16), scaled down.
NacelleSegments == 2

TorusMajorSegments == 2

TorusMinorSegments == 2

\* Largest segment count the mesh generators are tried with.
MaxSegments == 2

\* ------------------------------------------------------ program constants
HEIGHT_SCALE == 3

Seed == 42

PiMilli == 3142

\* Radial divisions of the foundation cylinder, vents of the nacelle, bolts
\* of the hub.
FoundationSegments == 32

VentCount == 8

BoltCount == 12

\* ---------------------------------------------------------------- helpers
Min(a, b) == IF a < b THEN a ELSE b

Max(a, b) == IF a > b THEN a ELSE b

\* a * b / 1000 rounded toward zero (product of two thousandths).
MulMilli(a, b) ==
    IF a * b >= 0 THEN (a * b) \div 1000 ELSE -((-(a * b)) \div 1000)

\* a / d rounded toward zero.
DivTrunc(a, d) == IF a >= 0 THEN a \div d ELSE -((-a) \div d)

\* sin on [0, pi/2], argument and result in thousandths (Taylor, 4 terms).
SinPoly(x) ==
    LET x2 == (x * x) \div 1000
        t3 == (x * x2) \div 6000
        t5 == (t3 * x2) \div 20000
        t7 == (t5 * x2) \div 42000
    IN  Min(1000, x - t3 + t5 - t7)

\* sin(x), x in thousandths of a radian, result in thousandths.
SinMilli(x) ==
    LET r == x % (2 * PiMilli)
        h == IF r > PiMilli THEN r - PiMilli ELSE r
        q == IF h > PiMilli \div 2 THEN PiMilli - h ELSE h
    IN  IF r > PiMilli THEN -SinPoly(q) ELSE SinPoly(q)

CosMilli(x) == SinMilli(x + PiMilli \div 2)

\* std::vector::resize(n) with value-initialised new elements.
Resize(v, n, fill) == [k \in 1..n |-> IF k <= Len(v) THEN v[k] ELSE fill]

\* grid[i][j] is a valid element (operator[] is unchecked in the program).
InGrid(grid, i, j) ==
    /\ i >= 0 /\ i + 1 <= Len(grid)
    /\ j >= 0 /\ j + 1 <= Len(grid[i + 1])

\* grid has exactly n rows of n elements.
IsSquare(grid, n) ==
    /\ Len(grid) = n
    /\ \A k \in 1..Len(grid) : Len(grid[k]) = n

\* ------------------------------------------------ model-view transforms
\* Vectors are <<x, y, z>> in thousandths; a transform is a 3 x 3 linear
\* part r (rows, entries in thousandths), an origin t, and rot, the angle
\* (thousandths of a degree) and axis of the latest glRotatef applied to it.
VecAdd(u, v) == <<u[1] + v[1], u[2] + v[2], u[3] + v[3]>>

Dot(u, v) == MulMilli(u[1], v[1]) + MulMilli(u[2], v[2]) + MulMilli(u[3], v[3])

MatVec(r, v) == <<Dot(r[1], v), Dot(r[2], v), Dot(r[3], v)>>

Column(r, k) == <<r[1][k], r[2][k], r[3][k]>>

MatMul(a, b) ==
    [row \in 1..3 |-> [col \in 1..3 |-> Dot(a[row], Column(b, col))]]

\* sin and cos of an angle in thousandths of a degree; exact at the
\* multiples of 90 degrees.
SinDeg(a) ==
    LET d == a % 360000
    IN  IF d = 0 \/ d = 180000 THEN 0
        ELSE IF d = 90000 THEN 1000
        ELSE IF d = 270000 THEN -1000
        ELSE SinMilli((d * PiMilli) \div 180000)

CosDeg(a) == SinDeg(a + 90000)

AxisX == <<1000, 0, 0>>

AxisY == <<0, 1000, 0>>

\* The rotation glRotatef multiplies in (the program uses the X and Y axes).
RotationMatrix(angle, axis) ==
    LET c == CosDeg(angle)
        sn == SinDeg(angle)
    IN  IF axis = AxisX
        THEN <<<<1000, 0, 0>>, <<0, c, -sn>>, <<0, sn, c>>>>
        ELSE <<<<c, 0, sn>>, <<0, 1000, 0>>, <<-sn, 0, c>>>>

\* glLoadIdentity.
IdentityMatrix ==
    [r |-> <<<<1000, 0, 0>>, <<0, 1000, 0>>, <<0, 0, 1000>>>>,
     t |-> <<0, 0, 0>>,
     rot |-> <<0, <<0, 0, 0>>>>]

\* glTranslatef(x, y, z) applied to the current transform m.
glTranslatef(m, v) == [m EXCEPT !.t = VecAdd(m.t, MatVec(m.r, v))]

\* glRotatef(angle, x, y, z) applied to the current transform m.
glRotatef(m, angle, axis) ==
    [m EXCEPT !.r = MatMul(m.r, RotationMatrix(angle, axis)),
              !.rot = <<angle, axis>>]

\* glScalef(x, y, z) applied to the current transform m.
glScalef(m, v) ==
    [m EXCEPT !.r = [row \in 1..3 |->
                        [col \in 1..3 |-> MulMilli(m.r[row][col], v[col])]]]

\* Where the current transform m puts the point p.
Transform(m, p) == VecAdd(m.t, MatVec(m.r, p))

\* ------------------------------------------------- pseudo-random stream
\* srand/rand are the C library's: a deterministic generator with hidden
\* state.  A linear congruential generator of reduced width stands in.
RandNext(s) == (s * 214013 + 2531011) % RandModulus

RandOut(s) == s \div 8

\* Mutant: srand leaves the stream where it was.
SeededState_Kept(s, seed) == s

\* srand(seed): the state of the stream afterwards, whatever it was before.
SeededState(s, seed) == seed

\* State of the stream when srand was never called (same as srand(1)).
UnseededState == SeededState(0, 1)

\* ------------------------------------------------------------- terrain
\* generateTerrain, body of the inner loop.
Height(i, j) ==
    MulMilli(SinMilli(300 * i), CosMilli(300 * j)) * HEIGHT_SCALE
    + MulMilli(SinMilli(100 * i), SinMilli(150 * j)) * HEIGHT_SCALE * 2
    + DivTrunc(MulMilli(SinMilli(50 * i), CosMilli(80 * j)) * HEIGHT_SCALE, 2)

HeightRow(i) == [jj \in 1..(TERRAIN_SIZE + 1) |-> Height(i, jj - 1)]

\* The heightfield generateTerrain leaves behind.
HeightField == [ii \in 1..(TERRAIN_SIZE + 1) |-> HeightRow(ii - 1)]

\* Mutant: the tier boundaries compared with <= instead of <.
TierLabel_Le(height, r) ==
    IF height <= -2000 THEN (IF r > 70 THEN 3 ELSE 2)
    ELSE IF height <= 2000 THEN (IF r > 60 THEN 3 ELSE 0)
    ELSE IF height <= 5000 THEN (IF r > 50 THEN 1 ELSE 0)
    ELSE 1

\* generateMultiTextureTerrain, the elevation tiers (rf in hundredths).
TierLabel(height, r) ==
    IF height < -2000 THEN (IF r > 70 THEN 3 ELSE 2)
    ELSE IF height < 2000 THEN (IF r > 60 THEN 3 ELSE 0)
    ELSE IF height < 5000 THEN (IF r > 50 THEN 1 ELSE 0)
    ELSE 1

\* Mutant: the override test draws a fresh value instead of reusing rf.
ClassifyCell_FreshDraw(height, s) ==
    LET s1 == RandNext(s)
        r  == RandOut(s1) % 100
        s2 == RandNext(s1)
        r2 == RandOut(s2) % 100
        s3 == RandNext(s2)
    IN  IF r2 > 95
        THEN [label |-> RandOut(s3) % 4, state |-> s3, rf |-> r, calls |-> 3]
        ELSE [label |-> IF height < -2000 THEN (IF r > 70 THEN 3 ELSE 2)
                        ELSE IF height < 2000 THEN (IF r > 60 THEN 3 ELSE 0)
                        ELSE IF height < 5000 THEN (IF r > 50 THEN 1 ELSE 0)
                        ELSE 1,
              state |-> s2, rf |-> r, calls |-> 2]

\* generateMultiTextureTerrain, body of the inner loop: the label of one
\* cell, the stream state afterwards, rf, and the number of rand() calls.
ClassifyCell(height, s) ==
    LET s1 == RandNext(s)
        r  == RandOut(s1) % 100
        s2 == RandNext(s1)
    IN  IF r > 95
        THEN [label |-> RandOut(s2) % 4, state |-> s2, rf |-> r, calls |-> 2]
        ELSE [label |-> TierLabel(height, r), state |-> s1, rf |-> r,
              calls |-> 1]

\* Mutant: the loops of drawTerrain run to TERRAIN_SIZE inclusive.
DrawTerrainRange_Inclusive == 0..TERRAIN_SIZE

\* drawTerrain, the range of both loops.
DrawTerrainRange == 0..(TERRAIN_SIZE - 1)

\* drawTerrain: every element it reads is inside the grid it is read from.
DrawTerrainInBounds(heights, textures) ==
    \A di \in DrawTerrainRange : \A dj \in DrawTerrainRange :
        /\ InGrid(textures, di, dj)
        /\ InGrid(heights, di, dj)
        /\ InGrid(heights, di + 1, dj)
        /\ InGrid(heights, di + 1, dj + 1)
        /\ InGrid(heights, di, dj + 1)

\* ----------------------------------------------------------- animation
\* Mutant: the wrap tests > 360 instead of >= 360.
AdvanceBlade_Gt(b, w) ==
    IF b + w * 2 > 3600 THEN b + w * 2 - 3600 ELSE b + w * 2

\* Mutant: the factor 2.0 is missing.
AdvanceBlade_NoFactor(b, w) ==
    IF b + w >= 3600 THEN b + w - 3600 ELSE b + w

\* update: bladeRotation += windSpeed * 2.0f; wrap at 360.
AdvanceBlade(b, w) ==
    IF b + w * 2 >= 3600 THEN b + w * 2 - 3600 ELSE b + w * 2

\* update: nacelle_yaw = sin(timeAccumulator * 0.3f) * 15.0f.
NacelleYaw(t) == SinMilli((t * 3) \div 10) * 15

\* Mutant: the factor 0.5f of the first term is missing.
TowerSway_NoHalf(t) ==
    SinMilli((t * 8) \div 10) + DivTrunc(CosMilli((t * 6) \div 10) * 3, 10)

\* update: towerSway = sin(t * 0.8f) * 0.5f + cos(t * 0.6f) * 0.3f.
TowerSway(t) ==
    DivTrunc(SinMilli((t * 8) \div 10) * 5, 10)
    + DivTrunc(CosMilli((t * 6) \div 10) * 3, 10)

\* update: _angle += 0.02f; wrap at 360.
AdvanceAngle(a) == IF a + 2 >= 36000 THEN a + 2 - 36000 ELSE a + 2

\* Mutant: the lower clamp is 0.0 instead of 0.1.
DecWind_Zero(w) == IF w - 2 > 0 THEN w - 2 ELSE 0

\* keyboardHandler, case '1'.
DecWind(w) == Max(1, w - 2)

\* keyboardHandler, case '2'.
IncWind(w) == Min(50, w + 2)

\* The keys whose cases write modelled state.
Keys == {" ", "1", "2"}

\* The TurbineGeometry initialisers.
TurbineGeometry ==
    [baseRadius |-> 35, topRadius |-> 18, height |-> 800, segments |-> 24,
     nacelleLength |-> 120, nacelleWidth |-> 40, nacelleHeight |-> 45,
     bladeLength |-> 450, hubRadius |-> 22, bladeSegments |-> 20,
     foundationRadius |-> 80, foundationHeight |-> 20]

\* ------------------------------------------------------------------ state
VARIABLES
    pc,                 \* where the program is: a step of init(), or the main loop
    i, j,               \* loop counters of the function pc is in
    terrainHeights,     \* std::vector<std::vector<float>>, rows of elements
    terrainTextures,    \* std::vector<std::vector<int>>
    randState,          \* hidden state of srand/rand
    cellCalls,          \* rand() calls made by the latest pass of the inner loop
    rf,                 \* local rf of generateMultiTextureTerrain
    windSpeed, bladeRotation, nacelle_yaw, towerSway,
    timeAccumulator, animationEnabled,
    sceneAngle,         \* the global _angle
    turbineParams,
    redisplayPending,   \* GLUT: the window is marked for redisplay
    updatesSinceDisplay,\* update() calls since the last display(): 0, 1, 2 = more
    frozen,             \* animation values when animation was last disabled
    outOfRange,         \* some operator[] was applied outside its vector
    run, firstRun,      \* classifier harness: run number, grid of the first run
    consumed,           \* classifier harness: rand() calls made ahead of the run
    glTodo,             \* draw pass: the statements still to run, innermost first
    matrixStack,        \* OpenGL model-view matrix stack, top first
    callStack,          \* draw routines entered and not yet left, innermost first:
                        \* name, arguments, and on entry the stack depth, the
                        \* origin and the counts of vertices and divisions
    rotorAngles,        \* per rotor drawn in the frame, the blade rotations applied
    lastSolid,          \* the latest gluCylinder: its caller and its extent
    lastVertex,         \* the latest glVertex3f of drawBlade and the twist it is under
    vertexCount,        \* glVertex3f calls since the draw pass or routine began
    segDivs,            \* divisions by a segment count since it began
    divByZero,          \* some division had a zero divisor
    glUnderflow         \* glPopMatrix was called on a stack at its base depth

vars ==
    <<pc, i, j, terrainHeights, terrainTextures, randState, cellCalls, rf,
      windSpeed, bladeRotation, nacelle_yaw, towerSway, timeAccumulator,
      animationEnabled, sceneAngle, turbineParams, redisplayPending,
      updatesSinceDisplay, frozen, outOfRange, run, firstRun, consumed,
      glTodo, matrixStack, callStack, rotorAngles, lastSolid, lastVertex,
      vertexCount, segDivs, divByZero, glUnderflow>>

terrainVars == <<terrainHeights, terrainTextures>>

randVars == <<randState, cellCalls, rf>>

\* timeAccumulator, bladeRotation, nacelle_yaw, towerSway.
animValues == <<timeAccumulator, bladeRotation, nacelle_yaw, towerSway>>

animVars ==
    <<windSpeed, bladeRotation, nacelle_yaw, towerSway, timeAccumulator,
      animationEnabled, sceneAngle, frozen>>

glutVars == <<redisplayPending, updatesSinceDisplay>>

harnessVars == <<run, firstRun, consumed>>

drawVars ==
    <<glTodo, matrixStack, callStack, rotorAngles, lastSolid, lastVertex,
      vertexCount, segDivs, divByZero, glUnderflow>>

NoSnapshot == <<>>

NoSolid == [caller |-> "", from |-> <<0, 0, 0>>, to |-> <<0, 0, 0>>]

NoVertex == [routine |-> "", t |-> 0, rot |-> <<0, <<0, 0, 0>>>>]

\* No draw pass is running: the stack holds the one matrix it starts with.
DrawIdle ==
    /\ glTodo = <<>>
    /\ matrixStack = <<IdentityMatrix>>
    /\ callStack = <<>>
    /\ rotorAngles = <<>>
    /\ lastSolid = NoSolid
    /\ lastVertex = NoVertex
    /\ vertexCount = 0
    /\ segDivs = 0
    /\ divByZero = FALSE
    /\ glUnderflow = FALSE

\* The state of the globals when main() calls init().
Init ==
    /\ pc = "generateTerrain"
    /\ i = 0 /\ j = 0
    /\ terrainHeights = <<>>
    /\ terrainTextures = <<>>
    /\ randState = UnseededState
    /\ cellCalls = 0
    /\ rf = 0
    /\ windSpeed = 10
    /\ bladeRotation = 0
    /\ nacelle_yaw = 0
    /\ towerSway = 0
    /\ timeAccumulator = 0
    /\ animationEnabled = TRUE
    /\ sceneAngle = 0
    /\ turbineParams = TurbineGeometry
    /\ redisplayPending = FALSE
    /\ updatesSinceDisplay = 0
    /\ frozen = NoSnapshot
    /\ outOfRange = FALSE
    /\ run = 1
    /\ firstRun = <<>>
    /\ consumed = 0
    /\ DrawIdle

\* ------------------------------------------------------------------- init()
\* generateTerrain: terrainHeights.resize(TERRAIN_SIZE + 1).
GenTerrainBegin ==
    /\ pc = "generateTerrain"
    /\ terrainHeights' = Resize(terrainHeights, TERRAIN_SIZE + 1, <<>>)
    /\ i' = 0
    /\ pc' = "terrainRow"
    /\ UNCHANGED <<j, terrainTextures, randVars, animVars, turbineParams,
                   glutVars, outOfRange, harnessVars,
                   drawVars>>

\* generateTerrain: one pass of the outer loop (the row is resized and filled).
GenTerrainRow ==
    /\ pc = "terrainRow"
    /\ i <= TERRAIN_SIZE
    /\ terrainHeights' = [terrainHeights EXCEPT ![i + 1] = HeightRow(i)]
    /\ i' = i + 1
    /\ UNCHANGED <<pc, j, terrainTextures, randVars, animVars, turbineParams,
                   glutVars, outOfRange, harnessVars,
                   drawVars>>

\* generateTerrain returns; init() goes on to generateMultiTextureTerrain.
GenTerrainEnd ==
    /\ pc = "terrainRow"
    /\ i > TERRAIN_SIZE
    /\ pc' = "generateMultiTextureTerrain"
    /\ UNCHANGED <<i, j, terrainVars, randVars, animVars, turbineParams,
                   glutVars, outOfRange, harnessVars,
                   drawVars>>

\* generateMultiTextureTerrain: terrainTextures.resize(N + 1); srand(42).
GenTexBegin ==
    /\ pc = "generateMultiTextureTerrain"
    /\ terrainTextures' = Resize(terrainTextures, TERRAIN_SIZE + 1, <<>>)
    /\ randState' = SeededState(randState, Seed)
    /\ i' = 0
    /\ pc' = "texRow"
    /\ UNCHANGED <<j, terrainHeights, cellCalls, rf, animVars, turbineParams,
                   glutVars, outOfRange, harnessVars,
                   drawVars>>

\* generateMultiTextureTerrain: terrainTextures[i].resize(N + 1).
GenTexRow ==
    /\ pc = "texRow"
    /\ i <= TERRAIN_SIZE
    /\ terrainTextures' =
           [terrainTextures EXCEPT ![i + 1] = Resize(@, TERRAIN_SIZE + 1, 0)]
    /\ j' = 0
    /\ pc' = "texCell"
    /\ UNCHANGED <<i, terrainHeights, randVars, animVars, turbineParams,
                   glutVars, outOfRange, harnessVars,
                   drawVars>>

\* generateMultiTextureTerrain: one pass of the inner loop.
GenTexCell ==
    /\ pc = "texCell"
    /\ j <= TERRAIN_SIZE
    /\ LET inH == InGrid(terrainHeights, i, j)
           inT == InGrid(terrainTextures, i, j)
           height == IF inH THEN terrainHeights[i + 1][j + 1] ELSE 0
           c == ClassifyCell(height, randState)
       IN  /\ terrainTextures' =
                  IF inT
                  THEN [terrainTextures EXCEPT ![i + 1][j + 1] = c.label]
                  ELSE terrainTextures
           /\ randState' = c.state
           /\ rf' = c.rf
           /\ cellCalls' = c.calls
           /\ outOfRange' = (outOfRange \/ ~inH \/ ~inT)
    /\ j' = j + 1
    /\ UNCHANGED <<pc, i, terrainHeights, animVars, turbineParams, glutVars,
                   harnessVars,
                   drawVars>>

\* generateMultiTextureTerrain: the inner loop ends, ++i.
GenTexRowEnd ==
    /\ pc = "texCell"
    /\ j > TERRAIN_SIZE
    /\ i' = i + 1
    /\ pc' = "texRow"
    /\ UNCHANGED <<j, terrainVars, randVars, animVars, turbineParams,
                   glutVars, outOfRange, harnessVars,
                   drawVars>>

\* generateMultiTextureTerrain returns.
GenTexEnd ==
    /\ pc = "texRow"
    /\ i > TERRAIN_SIZE
    /\ pc' = "classified"
    /\ UNCHANGED <<i, j, terrainVars, randVars, animVars, turbineParams,
                   glutVars, outOfRange, harnessVars,
                   drawVars>>

\* The rest of init() returns and main() enters glutMainLoop().
InitEnd ==
    /\ pc = "classified"
    /\ pc' = "glutMainLoop"
    /\ UNCHANGED <<i, j, terrainVars, randVars, animVars, turbineParams,
                   glutVars, outOfRange, harnessVars,
                   drawVars>>

InitStep ==
    \/ GenTerrainBegin \/ GenTerrainRow \/ GenTerrainEnd
    \/ GenTexBegin \/ GenTexRow \/ GenTexCell \/ GenTexRowEnd \/ GenTexEnd
    \/ InitEnd

\* ------------------------------------------------------------ GLUT callbacks
\* The animation values as a record.
Snapshot ==
    [time |-> timeAccumulator, blade |-> bladeRotation,
     yaw |-> nacelle_yaw, sway |-> towerSway]

\* Mutant: the time is accumulated outside the if (animationEnabled).
AnimateTick_Ungated ==
    /\ timeAccumulator' = timeAccumulator + 16
    /\ IF animationEnabled
       THEN /\ bladeRotation' = AdvanceBlade(bladeRotation, windSpeed)
            /\ nacelle_yaw' = NacelleYaw(timeAccumulator + 16)
            /\ towerSway' = TowerSway(timeAccumulator + 16)
       ELSE UNCHANGED <<bladeRotation, nacelle_yaw, towerSway>>

\* update: the block guarded by if (animationEnabled).
AnimateTick ==
    IF animationEnabled
    THEN /\ timeAccumulator' = timeAccumulator + 16
         /\ bladeRotation' = AdvanceBlade(bladeRotation, windSpeed)
         /\ nacelle_yaw' = NacelleYaw(timeAccumulator + 16)
         /\ towerSway' = TowerSway(timeAccumulator + 16)
    ELSE UNCHANGED <<timeAccumulator, bladeRotation, nacelle_yaw, towerSway>>

\* Mutant: update() does not ask for a redisplay.
glutPostRedisplay_Skipped == UNCHANGED redisplayPending

\* glutPostRedisplay(): marks the window for redisplay.
glutPostRedisplay == redisplayPending' = TRUE

\* Mutant: the draw pass resets the sway it has just applied.
renderScene_ResetsSway ==
    /\ towerSway' = 0
    /\ UNCHANGED <<windSpeed, bladeRotation, nacelle_yaw, timeAccumulator,
                   animationEnabled, sceneAngle, terrainHeights,
                   terrainTextures, turbineParams>>

\* renderScene and the routines it calls: they read the animation values,
\* the geometry descriptor and the grids, and write none of them.
renderScene ==
    UNCHANGED <<windSpeed, bladeRotation, nacelle_yaw, towerSway,
                timeAccumulator, animationEnabled, sceneAngle,
                terrainHeights, terrainTextures, turbineParams>>

\* update(), the idle callback.  maxAngle bounds the number of calls explored.
update(maxAngle) ==
    /\ pc = "glutMainLoop"
    /\ sceneAngle < maxAngle
    /\ AnimateTick
    /\ frozen' = IF animationEnabled THEN NoSnapshot ELSE frozen
    /\ sceneAngle' = AdvanceAngle(sceneAngle)
    /\ glutPostRedisplay
    /\ updatesSinceDisplay' = Min(2, updatesSinceDisplay + 1)
    /\ UNCHANGED <<pc, i, j, terrainVars, randVars, windSpeed,
                   animationEnabled, turbineParams, outOfRange, harnessVars,
                   drawVars>>

\* display(), the display callback: GLUT calls it for a window marked for
\* redisplay and clears the mark.  renderScene reads the animation values,
\* the geometry descriptor and, in drawTerrain, the two grids.
display ==
    /\ pc = "glutMainLoop"
    /\ redisplayPending
    /\ redisplayPending' = FALSE
    /\ updatesSinceDisplay' = 0
    /\ renderScene
    /\ outOfRange' =
           (outOfRange \/ ~DrawTerrainInBounds(terrainHeights, terrainTextures))
    /\ UNCHANGED <<pc, i, j, randVars, frozen, harnessVars,
                   drawVars>>

\* keyboardHandler(key, x, y) for the keys that write modelled state.
keyboardHandler(key) ==
    /\ pc = "glutMainLoop"
    /\ CASE key = " " ->
              /\ animationEnabled' = ~animationEnabled
              /\ frozen' = IF animationEnabled THEN Snapshot ELSE frozen
              /\ UNCHANGED windSpeed
         [] key = "1" ->
              /\ windSpeed' = DecWind(windSpeed)
              /\ UNCHANGED <<animationEnabled, frozen>>
         [] key = "2" ->
              /\ windSpeed' = IncWind(windSpeed)
              /\ UNCHANGED <<animationEnabled, frozen>>
    /\ UNCHANGED <<pc, i, j, terrainVars, randVars, bladeRotation,
                   nacelle_yaw, towerSway, timeAccumulator, sceneAngle,
                   turbineParams, glutVars, outOfRange, harnessVars,
                   drawVars>>

\* The window system damages or first shows the window: GLUT marks it for
\* redisplay without any callback of the program having asked for it.
Expose ==
    /\ pc = "glutMainLoop"
    /\ ~redisplayPending
    /\ redisplayPending' = TRUE
    /\ UNCHANGED <<pc, i, j, terrainVars, randVars, animVars, turbineParams,
                   updatesSinceDisplay, outOfRange, harnessVars,
                   drawVars>>

Update == update(2 * MaxUpdates)

Display == display

Keyboard == \E key \in Keys : keyboardHandler(key)

Next == InitStep \/ Update \/ Display \/ Keyboard \/ Expose

Spec == Init /\ [][Next]_vars

\* ------------------------------------ the animation from any later state
\* generateMultiTextureTerrain as a whole, cell k (row-major) onwards: the
\* grid, the stream state, and cellCalls and rf of the last pass.
RECURSIVE ClassifyFrom(_, _, _)
ClassifyFrom(heights, k, acc) ==
    IF k = (TERRAIN_SIZE + 1) * (TERRAIN_SIZE + 1)
    THEN acc
    ELSE LET ci == k \div (TERRAIN_SIZE + 1)
             cj == k % (TERRAIN_SIZE + 1)
             c == ClassifyCell(heights[ci + 1][cj + 1], acc.state)
         IN  ClassifyFrom(heights, k + 1,
                 [grid |-> [acc.grid EXCEPT ![ci + 1][cj + 1] = c.label],
                  state |-> c.state, calls |-> c.calls, rf |-> c.rf])

\* A grid with every element equal to v.
FlatGrid(v) ==
    [ii \in 1..(TERRAIN_SIZE + 1) |-> [jj \in 1..(TERRAIN_SIZE + 1) |-> v]]

\* What init() leaves behind for the heightfield generateTerrain produces.
Classified ==
    ClassifyFrom(HeightField, 0,
        [grid |-> FlatGrid(0), state |-> SeededState(UnseededState, Seed),
         calls |-> 0, rf |-> 0])

\* Blade angles sampled for the start of the animation runs: 0 and every
\* angle the program can hold (a multiple of 0.2) in the last 10 degrees.
BladeSamples == {0} \cup {b \in 3500..3599 : b % 2 = 0}

\* The wind speeds the key presses can produce.
WindSpeeds == 1..50

\* The main loop after AnimStartTicks enabled ticks and any key presses:
\* every sampled blade angle with every wind speed, animation on or off.
InitAnim ==
    /\ pc = "glutMainLoop"
    /\ i = TERRAIN_SIZE + 1 /\ j = TERRAIN_SIZE + 1
    /\ terrainHeights = HeightField
    /\ terrainTextures = Classified.grid
    /\ randState = Classified.state
    /\ cellCalls = Classified.calls
    /\ rf = Classified.rf
    /\ windSpeed \in WindSpeeds
    /\ bladeRotation \in BladeSamples
    /\ timeAccumulator = 16 * AnimStartTicks
    /\ nacelle_yaw = NacelleYaw(16 * AnimStartTicks)
    /\ towerSway = TowerSway(16 * AnimStartTicks)
    /\ animationEnabled \in BOOLEAN
    /\ sceneAngle = 2 * AnimStartTicks
    /\ turbineParams = TurbineGeometry
    /\ redisplayPending = FALSE
    /\ updatesSinceDisplay = 0
    /\ frozen = IF animationEnabled THEN NoSnapshot
                ELSE [time |-> 16 * AnimStartTicks, blade |-> bladeRotation,
                      yaw |-> NacelleYaw(16 * AnimStartTicks),
                      sway |-> TowerSway(16 * AnimStartTicks)]
    /\ outOfRange = FALSE
    /\ run = 1
    /\ firstRun = <<>>
    /\ consumed = 0
    /\ DrawIdle

AnimUpdate == update(2 * (AnimStartTicks + MaxAnimUpdates))

NextAnim == AnimUpdate \/ Keyboard

SpecAnim == InitAnim /\ [][NextAnim]_vars

\* ------------------------------------------- one pass of the classifier
\* Elevations on both sides of each tier boundary.
HeightSamples ==
    {-3000, -2001, -2000, -1999, 0, 1999, 2000, 2001, 4999, 5000, 5001, 9000}

\* The classifier about to run the pass for the last cell, for an arbitrary
\* elevation of that cell and an arbitrary state of the stream.
InitCell ==
    /\ pc = "texCell"
    /\ i = TERRAIN_SIZE /\ j = TERRAIN_SIZE
    /\ \E h \in HeightSamples : terrainHeights = FlatGrid(h)
    /\ terrainTextures = FlatGrid(0)
    /\ randState \in 0..(RandModulus - 1)
    /\ cellCalls = 0
    /\ rf = 0
    /\ windSpeed = 10
    /\ bladeRotation = 0
    /\ nacelle_yaw = 0
    /\ towerSway = 0
    /\ timeAccumulator = 0
    /\ animationEnabled = TRUE
    /\ sceneAngle = 0
    /\ turbineParams = TurbineGeometry
    /\ redisplayPending = FALSE
    /\ updatesSinceDisplay = 0
    /\ frozen = NoSnapshot
    /\ outOfRange = FALSE
    /\ run = 1
    /\ firstRun = <<>>
    /\ consumed = 0
    /\ DrawIdle

NextCell == GenTexCell

SpecCell == InitCell /\ [][NextCell]_vars

\* ------------------------------------------- the classifier run twice
\* Other code of the program calls rand() (createProceduralTexture does).
ConsumeRand ==
    /\ pc = "generateMultiTextureTerrain"
    /\ consumed < MaxConsume
    /\ randState' = RandNext(randState)
    /\ consumed' = consumed + 1
    /\ UNCHANGED <<pc, i, j, terrainVars, cellCalls, rf, animVars,
                   turbineParams, glutVars, outOfRange, run, firstRun,
                   drawVars>>

\* The grid of the first run is kept and the classifier is called again.
Rerun ==
    /\ pc = "classified"
    /\ run = 1
    /\ firstRun' = terrainTextures
    /\ run' = 2
    /\ consumed' = 0
    /\ pc' = "generateMultiTextureTerrain"
    /\ UNCHANGED <<i, j, terrainVars, randVars, animVars, turbineParams,
                   glutVars, outOfRange, drawVars>>

\* generateTerrain has returned; the stream was never seeded.
InitRerun ==
    /\ pc = "generateMultiTextureTerrain"
    /\ i = TERRAIN_SIZE + 1 /\ j = 0
    /\ terrainHeights = HeightField
    /\ terrainTextures = <<>>
    /\ randState = UnseededState
    /\ cellCalls = 0
    /\ rf = 0
    /\ windSpeed = 10
    /\ bladeRotation = 0
    /\ nacelle_yaw = 0
    /\ towerSway = 0
    /\ timeAccumulator = 0
    /\ animationEnabled = TRUE
    /\ sceneAngle = 0
    /\ turbineParams = TurbineGeometry
    /\ redisplayPending = FALSE
    /\ updatesSinceDisplay = 0
    /\ frozen = NoSnapshot
    /\ outOfRange = FALSE
    /\ run = 1
    /\ firstRun = <<>>
    /\ consumed = 0
    /\ DrawIdle

NextRerun ==
    \/ ConsumeRand \/ GenTexBegin \/ GenTexRow \/ GenTexCell \/ GenTexRowEnd
    \/ GenTexEnd \/ Rerun

SpecRerun == InitRerun /\ [][NextRerun]_vars

\* --------------------------------------- the oscillations over a period
\* The main loop after OscTicks update() calls at windSpeed 1.0, the first
\* k of them with animation enabled, for every k up to OscTicks.
InitOsc ==
    /\ pc = "glutMainLoop"
    /\ i = TERRAIN_SIZE + 1 /\ j = TERRAIN_SIZE + 1
    /\ terrainHeights = HeightField
    /\ terrainTextures = Classified.grid
    /\ randState = Classified.state
    /\ cellCalls = Classified.calls
    /\ rf = Classified.rf
    /\ windSpeed = 10
    /\ \E k \in 0..OscTicks :
           /\ timeAccumulator = 16 * k
           /\ bladeRotation = (20 * k) % 3600
           /\ nacelle_yaw = IF k = 0 THEN 0 ELSE NacelleYaw(16 * k)
           /\ towerSway = IF k = 0 THEN 0 ELSE TowerSway(16 * k)
           /\ frozen = IF k = OscTicks THEN NoSnapshot
                       ELSE [time |-> timeAccumulator, blade |-> bladeRotation,
                             yaw |-> nacelle_yaw, sway |-> towerSway]
    /\ animationEnabled = TRUE
    /\ sceneAngle = 2 * OscTicks
    /\ turbineParams = TurbineGeometry
    /\ redisplayPending = TRUE
    /\ updatesSinceDisplay = 2
    /\ outOfRange = FALSE
    /\ run = 1
    /\ firstRun = <<>>
    /\ consumed = 0
    /\ DrawIdle

OscUpdate == update(2 * (OscTicks + 1))

NextOsc == OscUpdate

SpecOsc == InitOsc /\ [][NextOsc]_vars

\* ------------------------------------------------------------ draw pass
\* A draw routine is the sequence of its statements.  A statement is a
\* record: op names the OpenGL call (or "call"/"return" for a routine of the
\* program, "divide" for a division by a segment count), fn the routine or
\* library function, args the arguments in thousandths.
Statement(op, fn, args) == [op |-> op, fn |-> fn, args |-> args]

Push == Statement("glPushMatrix", "", <<>>)

Pop == Statement("glPopMatrix", "", <<>>)

LoadIdentity == Statement("glLoadIdentity", "", <<>>)

Translate(x, y, z) == Statement("glTranslatef", "", <<x, y, z>>)

Rotate(angle, axis) == Statement("glRotatef", "", <<angle, axis>>)

Scale(x, y, z) == Statement("glScalef", "", <<x, y, z>>)

\* glTexCoord2f(s, t); glVertex3f(x, y, z): t is kept with the vertex.
Vertex(x, y, z, t) == Statement("glVertex3f", "", <<x, y, z, t>>)

\* An expression that divides num by a segment count.
Divide(num, by) == Statement("divide", "", <<num, by>>)

\* A GLU or GLUT shape drawn in the current transform.
Solid(fn, args) == Statement("solid", fn, args)

Call(fn, args) == Statement("call", fn, args)

Return(fn) == Statement("return", fn, <<>>)

RECURSIVE Flatten(_)
Flatten(ss) == IF Len(ss) = 0 THEN <<>> ELSE Head(ss) \o Flatten(Tail(ss))

\* A turbineParams length (tenths) in thousandths.
Milli(tenths) == tenths * 100

\* drawTerrain: the four corners of every cell (TERRAIN_SCALE is 2.0).
TerrainCorner(ci, cj) ==
    Vertex((ci - TERRAIN_SIZE \div 2) * 2000,
           IF InGrid(terrainHeights, ci, cj)
           THEN terrainHeights[ci + 1][cj + 1] ELSE 0,
           (cj - TERRAIN_SIZE \div 2) * 2000, 0)

drawTerrain ==
    Flatten([a \in 1..Cardinality(DrawTerrainRange) |->
        Flatten([b \in 1..Cardinality(DrawTerrainRange) |->
            <<TerrainCorner(a - 1, b - 1), TerrainCorner(a, b - 1),
              TerrainCorner(a, b), TerrainCorner(a - 1, b)>>])])

\* drawHouse: the vertices of the walls, roof, door and windows.
HouseVertices ==
    <<<<-2000, -2000, 2000>>, <<2000, -2000, 2000>>, <<2000, 2000, 2000>>,
      <<-2000, 2000, 2000>>, <<-2000, -2000, -2000>>, <<-2000, 2000, -2000>>,
      <<2000, 2000, -2000>>, <<2000, -2000, -2000>>, <<2000, -2000, -2000>>,
      <<2000, 2000, -2000>>, <<2000, 2000, 2000>>, <<2000, -2000, 2000>>,
      <<-2000, -2000, -2000>>, <<-2000, -2000, 2000>>, <<-2000, 2000, 2000>>,
      <<-2000, 2000, -2000>>, <<-2500, 2000, 2000>>, <<2500, 2000, 2000>>,
      <<0, 4000, 2000>>, <<-2500, 2000, -2000>>, <<0, 4000, -2000>>,
      <<2500, 2000, -2000>>, <<-2500, 2000, 2000>>, <<0, 4000, 2000>>,
      <<0, 4000, -2000>>, <<-2500, 2000, -2000>>, <<2500, 2000, 2000>>,
      <<2500, 2000, -2000>>, <<0, 4000, -2000>>, <<0, 4000, 2000>>,
      <<-500, -2000, 2010>>, <<500, -2000, 2010>>, <<500, 0, 2010>>,
      <<-500, 0, 2010>>, <<-1500, 500, 2010>>, <<-500, 500, 2010>>,
      <<-500, 1500, 2010>>, <<-1500, 1500, 2010>>, <<500, 500, 2010>>,
      <<1500, 500, 2010>>, <<1500, 1500, 2010>>, <<500, 1500, 2010>>>>
drawHouse ==
    [k \in 1..Len(HouseVertices) |->
        Vertex(HouseVertices[k][1], HouseVertices[k][2], HouseVertices[k][3], 0)]

\* renderScene: the sky quad, then terrain, house and three turbines under
\* the sway translation.
renderSceneBody ==
    <<Push, LoadIdentity,
      Vertex(-1000, -1000, -900, 0), Vertex(1000, -1000, -900, 0),
      Vertex(1000, 1000, -900, 0), Vertex(-1000, 1000, -900, 0),
      Pop,
      Push, Translate(towerSway, 0, DivTrunc(towerSway * 3, 10)),
      Call("drawTerrain", <<>>),
      Push, Translate(0, 1500, 0), Call("drawHouse", <<>>), Pop,
      Push, Translate(-20000, 0, -30000), Call("drawWindTurbine", <<>>), Pop,
      Push, Translate(30000, 0, -25000), Call("drawWindTurbine", <<>>), Pop,
      Push, Translate(-5000, 0, -40000), Call("drawWindTurbine", <<>>), Pop,
      Pop>>

drawWindTurbine ==
    <<Push,
      Call("drawFoundation", <<>>),
      Push, Translate(0, Milli(turbineParams.foundationHeight), 0),
      Call("drawTurbineTower", <<>>), Pop,
      Push,
      Translate(0, Milli(turbineParams.foundationHeight)
                   + Milli(turbineParams.height), 0),
      Rotate(nacelle_yaw, AxisY),
      Call("drawNacelle", <<>>),
      Translate(DivTrunc(Milli(turbineParams.nacelleLength) * 6, 10), 0, 0),
      Call("drawRotorSystem", <<>>),
      Pop,
      Pop>>

drawFoundation ==
    <<Push,
      Translate(0, -DivTrunc(Milli(turbineParams.foundationHeight) * 5, 10), 0),
      Push, Rotate(-90000, AxisX),
      Call("drawSolidCylinder",
           <<Milli(turbineParams.foundationRadius),
             Milli(turbineParams.foundationRadius),
             Milli(turbineParams.foundationHeight), FoundationSegments>>),
      Pop,
      Push,
      Translate(0, DivTrunc(Milli(turbineParams.foundationHeight) * 8, 10), 0),
      Rotate(-90000, AxisX),
      Call("drawTorus",
           <<DivTrunc(Milli(turbineParams.foundationRadius) * 11, 10), 500,
             TorusMajorSegments, TorusMinorSegments>>),
      Pop,
      Pop>>

drawTurbineTower ==
    <<Push, Rotate(-90000, AxisX),
      Call("drawSolidCylinder",
           <<Milli(turbineParams.baseRadius), Milli(turbineParams.topRadius),
             Milli(turbineParams.height), turbineParams.segments>>),
      Pop>>

\* drawNacelle, one pass of the loop over the vents.
NacelleVent(k) ==
    LET r == DivTrunc(Milli(turbineParams.nacelleWidth) * 9, 10)
    IN  <<Push,
          Translate(MulMilli(CosDeg(k * 45000), r), 0,
                    MulMilli(SinDeg(k * 45000), r)),
          Scale(200, 800, 200),
          Solid("glutSolidCube", <<1000>>),
          Pop>>

drawNacelle ==
    <<Push, Rotate(90000, AxisY),
      Call("drawEllipsoid",
           <<Milli(turbineParams.nacelleLength),
             Milli(turbineParams.nacelleHeight),
             Milli(turbineParams.nacelleWidth), NacelleSegments>>)>>
    \o Flatten([k \in 1..VentCount |-> NacelleVent(k - 1)])
    \o <<Pop>>

\* Mutant: the blades are offset by 90 degrees.
BladeAngle_Quarter(b, k) == b * 100 + k * 90000

\* drawRotorSystem: bladeRotation + i * 120.0f, in thousandths of a degree.
BladeAngle(b, k) == b * 100 + k * 120000

\* drawRotorSystem, one pass of the loop over the blades.
RotorBlade(k) ==
    <<Push, Rotate(BladeAngle(bladeRotation, k), AxisX),
      Call("drawBlade", <<k * 120000>>), Pop>>

drawRotorSystem ==
    <<Call("drawHub", <<>>)>> \o Flatten([k \in 1..3 |-> RotorBlade(k - 1)])

\* drawHub, one pass of the loop over the bolts.
HubBolt(k) ==
    LET r == DivTrunc(Milli(turbineParams.hubRadius) * 8, 10)
    IN  <<Push,
          Translate(MulMilli(CosDeg(k * 30000), r), 0,
                    MulMilli(SinDeg(k * 30000), r)),
          Solid("glutSolidSphere", <<150, 8, 8>>),
          Pop>>

drawHub ==
    <<Solid("glutSolidSphere", <<Milli(turbineParams.hubRadius), 16, 16>>)>>
    \o Flatten([k \in 1..BoltCount |-> HubBolt(k - 1)])

\* drawBlade, one pass of the loop over the segments: the segment is drawn
\* under glTranslatef(0, y1, 0) and glRotatef(twist1, 0, 1, 0); twist2 is
\* computed and not used.
BladeSegment(k) ==
    LET segments == turbineParams.bladeSegments
        segLen == DivTrunc(Milli(turbineParams.bladeLength), segments)
        t1 == (k * 1000) \div segments
        t2 == ((k + 1) * 1000) \div segments
        width1 == MulMilli(Milli(turbineParams.hubRadius),
                           1000 - DivTrunc(t1 * 8, 10))
        width2 == MulMilli(Milli(turbineParams.hubRadius),
                           1000 - DivTrunc(t2 * 8, 10))
        thick1 == DivTrunc(width1 * 15, 100)
        thick2 == DivTrunc(width2 * 15, 100)
        y1 == MulMilli(t1, Milli(turbineParams.bladeLength))
        twist1 == t1 * 25
    IN  <<Divide(k, segments), Divide(k + 1, segments),
          Push, Translate(0, y1, 0), Rotate(twist1, AxisY),
          Vertex(-width1, 0, thick1, t1), Vertex(width1, 0, thick1, t1),
          Vertex(width2, segLen, thick2, t2), Vertex(-width2, segLen, thick2, t2),
          Vertex(-width1, 0, -thick1, t1), Vertex(-width2, segLen, -thick2, t2),
          Vertex(width2, segLen, -thick2, t2), Vertex(width1, 0, -thick1, t1),
          Vertex(width1, 0, thick1, t1), Vertex(width1, 0, -thick1, t1),
          Vertex(width2, segLen, -thick2, t2), Vertex(width2, segLen, thick2, t2),
          Vertex(-width1, 0, thick1, t1), Vertex(-width2, segLen, thick2, t2),
          Vertex(-width2, segLen, -thick2, t2), Vertex(-width1, 0, -thick1, t1),
          Pop>>

\* drawBlade(angleOffset): segLen is computed ahead of the loop; the
\* parameter is not used.
drawBlade(angleOffset) ==
    <<Divide(Milli(turbineParams.bladeLength), turbineParams.bladeSegments)>>
    \o Flatten([k \in 1..turbineParams.bladeSegments |-> BladeSegment(k - 1)])

\* drawSolidCylinder whose top cap leaves its matrix on the stack.
drawSolidCylinder_NoPop(baseRadius, topRadius, height, segments) ==
    <<Solid("gluCylinder", <<baseRadius, topRadius, height, segments>>),
      Solid("gluDisk", <<baseRadius, segments>>),
      Push, Translate(0, 0, height),
      Solid("gluDisk", <<topRadius, segments>>)>>

drawSolidCylinder(baseRadius, topRadius, height, segments) ==
    <<Solid("gluCylinder", <<baseRadius, topRadius, height, segments>>),
      Solid("gluDisk", <<baseRadius, segments>>),
      Push, Translate(0, 0, height),
      Solid("gluDisk", <<topRadius, segments>>),
      Pop>>

\* drawEllipsoid: the point at polar step qi and azimuthal step qj.
EllipsoidVertex(a, b, c, segments, qi, qj) ==
    LET u == (qi * PiMilli) \div segments
        v == (qj * 2 * PiMilli) \div segments
    IN  Vertex(MulMilli(MulMilli(a, CosMilli(u)), CosMilli(v)),
               MulMilli(b, SinMilli(u)),
               MulMilli(MulMilli(c, CosMilli(u)), SinMilli(v)),
               (qi * 1000) \div segments)

\* drawEllipsoid, one pass of the inner loop: u1, u2, v1, v2 and then four
\* vertices, each with a texture coordinate that divides twice.
EllipsoidQuad(a, b, c, segments, qi, qj) ==
    <<Divide(qi, segments), Divide(qi + 1, segments),
      Divide(qj, segments), Divide(qj + 1, segments),
      Divide(qj, segments), Divide(qi, segments),
      EllipsoidVertex(a, b, c, segments, qi, qj),
      Divide(qj, segments), Divide(qi + 1, segments),
      EllipsoidVertex(a, b, c, segments, qi + 1, qj),
      Divide(qj + 1, segments), Divide(qi + 1, segments),
      EllipsoidVertex(a, b, c, segments, qi + 1, qj + 1),
      Divide(qj + 1, segments), Divide(qi, segments),
      EllipsoidVertex(a, b, c, segments, qi, qj + 1)>>

drawEllipsoid(a, b, c, segments) ==
    Flatten([qi \in 1..segments |->
        Flatten([qj \in 1..segments |->
            EllipsoidQuad(a, b, c, segments, qi - 1, qj - 1)])])

\* drawTorus: the point at major step qi and minor step qj.
TorusVertex(majorRadius, minorRadius, majorSegments, minorSegments, qi, qj) ==
    LET u == (qi * 2 * PiMilli) \div majorSegments
        v == (qj * 2 * PiMilli) \div minorSegments
        ring == majorRadius + MulMilli(minorRadius, CosMilli(v))
    IN  Vertex(MulMilli(ring, CosMilli(u)), MulMilli(ring, SinMilli(u)),
               MulMilli(minorRadius, SinMilli(v)),
               (qj * 1000) \div minorSegments)

\* drawTorus, one pass of the inner loop: u1, u2, v1, v2 and four vertices.
TorusQuad(majorRadius, minorRadius, majorSegments, minorSegments, qi, qj) ==
    <<Divide(qi, majorSegments), Divide(qi + 1, majorSegments),
      Divide(qj, minorSegments), Divide(qj + 1, minorSegments),
      TorusVertex(majorRadius, minorRadius, majorSegments, minorSegments,
                  qi, qj),
      TorusVertex(majorRadius, minorRadius, majorSegments, minorSegments,
                  qi + 1, qj),
      TorusVertex(majorRadius, minorRadius, majorSegments, minorSegments,
                  qi + 1, qj + 1),
      TorusVertex(majorRadius, minorRadius, majorSegments, minorSegments,
                  qi, qj + 1)>>

drawTorus(majorRadius, minorRadius, majorSegments, minorSegments) ==
    Flatten([qi \in 1..majorSegments |->
        Flatten([qj \in 1..minorSegments |->
            TorusQuad(majorRadius, minorRadius, majorSegments, minorSegments,
                      qi - 1, qj - 1)])])

\* The statements of routine fn called with arguments args.
Body(fn, args) ==
    CASE fn = "renderScene" -> renderSceneBody
      [] fn = "drawTerrain" -> drawTerrain
      [] fn = "drawHouse" -> drawHouse
      [] fn = "drawWindTurbine" -> drawWindTurbine
      [] fn = "drawFoundation" -> drawFoundation
      [] fn = "drawTurbineTower" -> drawTurbineTower
      [] fn = "drawNacelle" -> drawNacelle
      [] fn = "drawRotorSystem" -> drawRotorSystem
      [] fn = "drawHub" -> drawHub
      [] fn = "drawBlade" -> drawBlade(args[1])
      [] fn = "drawSolidCylinder" ->
             drawSolidCylinder(args[1], args[2], args[3], args[4])
      [] fn = "drawEllipsoid" ->
             drawEllipsoid(args[1], args[2], args[3], args[4])
      [] fn = "drawTorus" -> drawTorus(args[1], args[2], args[3], args[4])

\* What a draw pass reads and leaves alone.
drawnFrom ==
    <<i, j, terrainVars, randVars, animVars, turbineParams, glutVars,
      outOfRange, harnessVars>>

\* A draw pass is running and has a statement to execute.
Drawing == pc = "display" /\ Len(glTodo) > 0

\* The routine that is executing, and the one that called it.
TopRoutine == IF Len(callStack) > 0 THEN callStack[1].fn ELSE ""

Caller == IF Len(callStack) > 1 THEN callStack[2].fn ELSE ""

\* The origin of the frame drawWindTurbine was entered with.
TurbineOrigin ==
    LET entries == {k \in 1..Len(callStack) : callStack[k].fn = "drawWindTurbine"}
    IN  IF entries = {} THEN <<0, 0, 0>>
        ELSE callStack[CHOOSE k \in entries : TRUE].origin

\* p relative to the turbine's frame.
InTurbineFrame(p) ==
    <<p[1] - TurbineOrigin[1], p[2] - TurbineOrigin[2], p[3] - TurbineOrigin[3]>>

DoPushMatrix ==
    /\ Drawing
    /\ Head(glTodo).op = "glPushMatrix"
    /\ matrixStack' = <<Head(matrixStack)>> \o matrixStack
    /\ glTodo' = Tail(glTodo)
    /\ UNCHANGED <<pc, drawnFrom, callStack, rotorAngles, lastSolid,
                   lastVertex, vertexCount, segDivs, divByZero, glUnderflow>>

\* glPopMatrix on a stack that holds one matrix is GL_STACK_UNDERFLOW and
\* leaves the stack as it is.
DoPopMatrix ==
    /\ Drawing
    /\ Head(glTodo).op = "glPopMatrix"
    /\ IF Len(matrixStack) > 1
       THEN matrixStack' = Tail(matrixStack) /\ UNCHANGED glUnderflow
       ELSE glUnderflow' = TRUE /\ UNCHANGED matrixStack
    /\ glTodo' = Tail(glTodo)
    /\ UNCHANGED <<pc, drawnFrom, callStack, rotorAngles, lastSolid,
                   lastVertex, vertexCount, segDivs, divByZero>>

DoLoadIdentity ==
    /\ Drawing
    /\ Head(glTodo).op = "glLoadIdentity"
    /\ matrixStack' = <<IdentityMatrix>> \o Tail(matrixStack)
    /\ glTodo' = Tail(glTodo)
    /\ UNCHANGED <<pc, drawnFrom, callStack, rotorAngles, lastSolid,
                   lastVertex, vertexCount, segDivs, divByZero, glUnderflow>>

DoTranslate ==
    /\ Drawing
    /\ Head(glTodo).op = "glTranslatef"
    /\ matrixStack' =
           <<glTranslatef(Head(matrixStack), Head(glTodo).args)>>
           \o Tail(matrixStack)
    /\ glTodo' = Tail(glTodo)
    /\ UNCHANGED <<pc, drawnFrom, callStack, rotorAngles, lastSolid,
                   lastVertex, vertexCount, segDivs, divByZero, glUnderflow>>

\* glRotatef; a rotation made by drawRotorSystem is the rotation of a blade.
DoRotate ==
    /\ Drawing
    /\ Head(glTodo).op = "glRotatef"
    /\ LET angle == Head(glTodo).args[1]
           axis == Head(glTodo).args[2]
       IN  /\ matrixStack' =
                  <<glRotatef(Head(matrixStack), angle, axis)>>
                  \o Tail(matrixStack)
           /\ rotorAngles' =
                  IF TopRoutine = "drawRotorSystem" /\ Len(rotorAngles) > 0
                  THEN [rotorAngles EXCEPT ![Len(rotorAngles)] = Append(@, angle)]
                  ELSE rotorAngles
    /\ glTodo' = Tail(glTodo)
    /\ UNCHANGED <<pc, drawnFrom, callStack, lastSolid, lastVertex,
                   vertexCount, segDivs, divByZero, glUnderflow>>

DoScale ==
    /\ Drawing
    /\ Head(glTodo).op = "glScalef"
    /\ matrixStack' =
           <<glScalef(Head(matrixStack), Head(glTodo).args)>>
           \o Tail(matrixStack)
    /\ glTodo' = Tail(glTodo)
    /\ UNCHANGED <<pc, drawnFrom, callStack, rotorAngles, lastSolid,
                   lastVertex, vertexCount, segDivs, divByZero, glUnderflow>>

\* glVertex3f: the vertex is emitted under the current transform.
DoVertex ==
    /\ Drawing
    /\ Head(glTodo).op = "glVertex3f"
    /\ vertexCount' = vertexCount + 1
    /\ lastVertex' = [routine |-> TopRoutine, t |-> Head(glTodo).args[4],
                      rot |-> Head(matrixStack).rot]
    /\ glTodo' = Tail(glTodo)
    /\ UNCHANGED <<pc, drawnFrom, matrixStack, callStack, rotorAngles,
                   lastSolid, segDivs, divByZero, glUnderflow>>

\* A division by a segment count.  The operands are floats: with a zero
\* divisor the result is an infinity or a NaN and the routine goes on.
DoDivide ==
    /\ Drawing
    /\ Head(glTodo).op = "divide"
    /\ segDivs' = segDivs + 1
    /\ divByZero' = (divByZero \/ Head(glTodo).args[2] = 0)
    /\ glTodo' = Tail(glTodo)
    /\ UNCHANGED <<pc, drawnFrom, matrixStack, callStack, rotorAngles,
                   lastSolid, lastVertex, vertexCount, glUnderflow>>

\* The same division in a build that traps floating-point division by zero.
DivideTraps ==
    /\ Drawing
    /\ Head(glTodo).op = "divide"
    /\ Head(glTodo).args[2] = 0
    /\ segDivs' = segDivs + 1
    /\ divByZero' = TRUE
    /\ pc' = "fault"
    /\ UNCHANGED <<drawnFrom, glTodo, matrixStack, callStack, rotorAngles,
                   lastSolid, lastVertex, vertexCount, glUnderflow>>

\* gluCylinder, gluDisk, glutSolidCube, glutSolidSphere: gluCylinder draws
\* from z = 0 to z = height of the current transform.
DoSolid ==
    /\ Drawing
    /\ Head(glTodo).op = "solid"
    /\ lastSolid' =
           IF Head(glTodo).fn = "gluCylinder"
           THEN [caller |-> Caller,
                 from |-> InTurbineFrame(Transform(Head(matrixStack), <<0, 0, 0>>)),
                 to |-> InTurbineFrame(Transform(Head(matrixStack),
                                           <<0, 0, Head(glTodo).args[3]>>))]
           ELSE lastSolid
    /\ glTodo' = Tail(glTodo)
    /\ UNCHANGED <<pc, drawnFrom, matrixStack, callStack, rotorAngles,
                   lastVertex, vertexCount, segDivs, divByZero, glUnderflow>>

\* A routine of the program is entered: its statements run next, with the
\* globals as they are now.
DoCall ==
    /\ Drawing
    /\ Head(glTodo).op = "call"
    /\ callStack' =
           <<[fn |-> Head(glTodo).fn, args |-> Head(glTodo).args,
              depth |-> Len(matrixStack), origin |-> Head(matrixStack).t,
              vertices |-> vertexCount, divs |-> segDivs]>> \o callStack
    /\ rotorAngles' =
           IF Head(glTodo).fn = "drawRotorSystem"
           THEN Append(rotorAngles, <<>>) ELSE rotorAngles
    /\ glTodo' =
           Body(Head(glTodo).fn, Head(glTodo).args)
           \o <<Return(Head(glTodo).fn)>> \o Tail(glTodo)
    /\ UNCHANGED <<pc, drawnFrom, matrixStack, lastSolid, lastVertex,
                   vertexCount, segDivs, divByZero, glUnderflow>>

DoReturn ==
    /\ Drawing
    /\ Head(glTodo).op = "return"
    /\ callStack' = Tail(callStack)
    /\ glTodo' = Tail(glTodo)
    /\ UNCHANGED <<pc, drawnFrom, matrixStack, rotorAngles, lastSolid,
                   lastVertex, vertexCount, segDivs, divByZero, glUnderflow>>

DrawStep ==
    \/ DoPushMatrix \/ DoPopMatrix \/ DoLoadIdentity \/ DoTranslate
    \/ DoRotate \/ DoScale \/ DoVertex \/ DoDivide \/ DoSolid \/ DoCall
    \/ DoReturn

\* ----------------------------------------------- display(), step by step
\* display() is entered: glLoadIdentity and gluLookAt (the camera is not
\* modelled), then renderScene().
displayBegin ==
    /\ pc = "glutMainLoop"
    /\ redisplayPending
    /\ redisplayPending' = FALSE
    /\ pc' = "display"
    /\ glTodo' = <<Call("renderScene", <<>>)>>
    /\ matrixStack' = <<IdentityMatrix>> \o Tail(matrixStack)
    /\ callStack' = <<>>
    /\ rotorAngles' = <<>>
    /\ vertexCount' = 0
    /\ segDivs' = 0
    /\ UNCHANGED <<i, j, terrainVars, randVars, animVars, turbineParams,
                   updatesSinceDisplay, outOfRange, harnessVars, lastSolid,
                   lastVertex, divByZero, glUnderflow>>

\* renderScene() has returned; display() swaps the buffers and returns.
displayEnd ==
    /\ pc = "display"
    /\ Len(glTodo) = 0
    /\ pc' = "glutMainLoop"
    /\ updatesSinceDisplay' = 0
    /\ outOfRange' =
           (outOfRange \/ ~DrawTerrainInBounds(terrainHeights, terrainTextures))
    /\ UNCHANGED <<i, j, terrainVars, randVars, animVars, turbineParams,
                   redisplayPending, harnessVars, drawVars>>

\* Ticks sampled for the frames: the start, the yaw near its maximum, two
\* more.
FrameTicks == {0, 330, 987, OscTicks}

\* The main loop with a redisplay pending, at the sampled ticks.
InitFrame == InitOsc /\ timeAccumulator \in {16 * k : k \in FrameTicks}

NextFrame == displayBegin \/ DrawStep \/ displayEnd \/ OscUpdate

SpecFrame == InitFrame /\ [][NextFrame]_vars

\* --------------------------------------- the mesh generators on their own
\* Segment counts tried: negative, zero, and two positive ones.
SegSamples == -1..MaxSegments

\* drawBlade, and drawEllipsoid and drawTorus with the arguments of their
\* call sites, for every sampled segment count.
MeshCalls ==
    {Call("drawBlade", <<0>>)}
    \cup {Call("drawEllipsoid",
               <<Milli(TurbineGeometry.nacelleLength),
                 Milli(TurbineGeometry.nacelleHeight),
                 Milli(TurbineGeometry.nacelleWidth), n>>) : n \in SegSamples}
    \cup {Call("drawTorus",
               <<DivTrunc(Milli(TurbineGeometry.foundationRadius) * 11, 10),
                 500, n, m>>) : n \in SegSamples, m \in SegSamples}

\* A draw pass about to call one mesh generator, the descriptor holding any
\* sampled bladeSegments.
InitMesh ==
    /\ pc = "display"
    /\ i = TERRAIN_SIZE + 1 /\ j = TERRAIN_SIZE + 1
    /\ terrainHeights = HeightField
    /\ terrainTextures = Classified.grid
    /\ randState = Classified.state
    /\ cellCalls = Classified.calls
    /\ rf = Classified.rf
    /\ windSpeed = 10
    /\ bladeRotation = 0
    /\ nacelle_yaw = 0
    /\ towerSway = 0
    /\ timeAccumulator = 0
    /\ animationEnabled = TRUE
    /\ sceneAngle = 0
    /\ turbineParams \in
           {[TurbineGeometry EXCEPT !.bladeSegments = n] : n \in SegSamples}
    /\ redisplayPending = FALSE
    /\ updatesSinceDisplay = 0
    /\ frozen = NoSnapshot
    /\ outOfRange = FALSE
    /\ run = 1
    /\ firstRun = <<>>
    /\ consumed = 0
    /\ glTodo \in {<<c>> : c \in MeshCalls}
    /\ matrixStack = <<IdentityMatrix>>
    /\ callStack = <<>>
    /\ rotorAngles = <<>>
    /\ lastSolid = NoSolid
    /\ lastVertex = NoVertex
    /\ vertexCount = 0
    /\ segDivs = 0
    /\ divByZero = FALSE
    /\ glUnderflow = FALSE

NextMesh ==
    \/ DoCall \/ DoDivide \/ DivideTraps \/ DoPushMatrix \/ DoTranslate
    \/ DoRotate \/ DoVertex \/ DoPopMatrix \/ DoReturn

SpecMesh == InitMesh /\ [][NextMesh]_vars

\* ------------------------------------------------------------------ claims
\* C1: in every reachable state, after any interleaving of update() ticks
\* and key presses, bladeRotation lies in [0, 360).
C1_BladeInRange == bladeRotation >= 0 /\ bladeRotation < 3600

\* An update has wrapped the blade angle from exactly 360 to 0.
C1_Witness ==
    /\ timeAccumulator = 16 * (AnimStartTicks + 1)
    /\ bladeRotation = 0

\* C2: while animationEnabled is false, update() calls leave bladeRotation,
\* nacelle_yaw, towerSway and timeAccumulator equal to the values they had
\* when animation was disabled; after re-enabling, the next update()
\* continues from those values.
C2_FrozenWhileDisabled ==
    [][ /\ ~animationEnabled' => (frozen' # NoSnapshot /\ Snapshot' = frozen')
        /\ (AnimUpdate /\ animationEnabled /\ frozen # NoSnapshot) =>
              /\ timeAccumulator' = frozen.time + 16
              /\ bladeRotation' = (frozen.blade + 2 * windSpeed) % 3600
              /\ nacelle_yaw' = NacelleYaw(frozen.time + 16)
              /\ towerSway' = TowerSway(frozen.time + 16) ]_vars

\* One enabled tick, then animation disabled and two more update() calls.
C2_Witness ==
    /\ ~animationEnabled
    /\ sceneAngle = 2 * (AnimStartTicks + 3)
    /\ timeAccumulator = 16 * (AnimStartTicks + 1)
    /\ frozen # NoSnapshot
    /\ frozen.time = timeAccumulator
    /\ bladeRotation = frozen.blade

\* C3: with animation enabled, one update() sets bladeRotation to
\* (bladeRotation + 2.0 * windSpeed) modulo 360; from 359 with windSpeed 1.0
\* the result is 1.0.
C3_UpdateAdvancesBlade ==
    [][ (AnimUpdate /\ animationEnabled) =>
            bladeRotation' = (bladeRotation + 2 * windSpeed) % 3600 ]_vars

\* One update later, at windSpeed 1.0, the blade angle is 1.0.
C3_Witness ==
    /\ timeAccumulator = 16 * (AnimStartTicks + 1)
    /\ animationEnabled
    /\ windSpeed = 10
    /\ bladeRotation = 10

\* C4: in every reachable state windSpeed lies in [0.1, 5.0].
C4_WindSpeedClamped == windSpeed >= 1 /\ windSpeed <= 50

\* 0.1 is reached from 1.0 only through the lower clamp.
C4_Witness == pc = "glutMainLoop" /\ windSpeed = 1

\* C5 as stated: every display() call is preceded by exactly one update()
\* call since the previous display().
C5_OneUpdatePerDisplay == [][ Display => updatesSinceDisplay = 1 ]_vars

\* C5 as amended: every update() asks for a redisplay, so a display is
\* pending whenever an update() has run since the last display().
C5_UpdateRequestsDisplay == updatesSinceDisplay > 0 => redisplayPending

\* Two update() calls have run and one display is pending.
C5_Witness == updatesSinceDisplay = 2 /\ redisplayPending

\* C6 as stated: a draw pass writes none of the grids, the geometry
\* descriptor or the animation state, and the animation state, the enabled
\* flag included, is written only by update().
C6_OnlyUpdateWrites ==
    [][ /\ Display => UNCHANGED <<terrainHeights, terrainTextures,
                                  turbineParams, animValues, animationEnabled>>
        /\ <<animValues, animationEnabled>>' # <<animValues, animationEnabled>>
              => Update ]_vars

\* C6 as amended: a draw pass writes none of them; timeAccumulator,
\* bladeRotation, nacelle_yaw and towerSway are written only by update();
\* the enabled flag is written only by keyboardHandler (the space key).
C6_Writers ==
    [][ /\ Display => UNCHANGED <<terrainHeights, terrainTextures,
                                  turbineParams, animValues, animationEnabled>>
        /\ animValues' # animValues => Update
        /\ animationEnabled' # animationEnabled => keyboardHandler(" ") ]_vars

\* A tick, the space key, and then a draw pass with non-zero sway.
C6_Witness ==
    /\ pc = "glutMainLoop"
    /\ ~animationEnabled
    /\ timeAccumulator = 16
    /\ towerSway # 0
    /\ updatesSinceDisplay = 0
    /\ ~redisplayPending

\* A pass of the classifier's inner loop has run for cell (i, j - 1).
CellClassified == pc = "texCell" /\ j >= 1 /\ cellCalls > 0

\* C7: for a cell whose r is not above 0.95 the label is decided by the
\* elevation tier: below -2.0, B (3) if r > 0.7 else A (2); below 2.0, B (3)
\* if r > 0.6 else Grass (0); below 5.0, Rock (1) if r > 0.5 else Grass (0);
\* otherwise Rock (1).
C7_TierDecidesLabel ==
    (CellClassified /\ rf <= 95) =>
        LET elevation == terrainHeights[i + 1][j]
            label == terrainTextures[i + 1][j]
        IN  /\ elevation < -2000 => label = (IF rf > 70 THEN 3 ELSE 2)
            /\ (elevation >= -2000 /\ elevation < 2000) =>
                   label = (IF rf > 60 THEN 3 ELSE 0)
            /\ (elevation >= 2000 /\ elevation < 5000) =>
                   label = (IF rf > 50 THEN 1 ELSE 0)
            /\ elevation >= 5000 => label = 1

\* A cell exactly at elevation 2.0 with r = 0.51 has been labelled Rock.
C7_Witness ==
    /\ CellClassified
    /\ rf = 51
    /\ terrainHeights[i + 1][j] = 2000
    /\ terrainTextures[i + 1][j] = 1

\* C8: the override fires exactly when the r that drove the tier decision
\* exceeds 0.95, and the label is then the next value of the stream modulo
\* 4; otherwise the tier label is kept and the pass consumes no further
\* value of the stream.
C8_OverrideReusesDraw ==
    [][ GenTexCell =>
            LET s1 == RandNext(randState)
                r == RandOut(s1) % 100
                s2 == RandNext(s1)
                elevation == terrainHeights[i + 1][j + 1]
                label == terrainTextures'[i + 1][j + 1]
            IN  /\ rf' = r
                /\ r > 95 => /\ randState' = s2
                             /\ label = RandOut(s2) % 4
                             /\ label \in 0..3
                /\ r <= 95 => /\ randState' = s1
                              /\ label = TierLabel(elevation, r) ]_vars

\* The override has fired and replaced the tier label by another one.
C8_Witness ==
    /\ CellClassified
    /\ rf > 95
    /\ cellCalls = 2
    /\ terrainTextures[i + 1][j] = RandOut(randState) % 4
    /\ terrainTextures[i + 1][j] # TierLabel(terrainHeights[i + 1][j], rf)

\* C9: for the fixed seed and a fixed heightfield two runs of the classifier
\* give the same grid cell for cell, however many random values were
\* consumed ahead of each run.
C9_SameGridOnRerun ==
    (run = 2 /\ pc = "classified") => terrainTextures = firstRun

\* The second run is complete; rand() was called ahead of it; the grid
\* holds more than one label.
C9_Witness ==
    /\ run = 2
    /\ pc = "classified"
    /\ consumed > 0
    /\ terrainTextures # FlatGrid(0)

\* C10 as stated: from the end of generateTerrain on, the states of
\* generateMultiTextureTerrain included, both grids are (N+1) x (N+1) and
\* every cell read is inside them.
C10_GridsMatchDuringInit ==
    pc \in {"generateMultiTextureTerrain", "texRow", "texCell", "classified",
            "glutMainLoop"} =>
        /\ IsSquare(terrainHeights, TERRAIN_SIZE + 1)
        /\ IsSquare(terrainTextures, TERRAIN_SIZE + 1)
        /\ ~outOfRange

\* C10 as amended: from the end of generateMultiTextureTerrain on both grids
\* are (N+1) x (N+1); while it runs only the heightfield is, the label grid
\* having no more rows than it and only empty or full rows; no cell is
\* accessed outside its grid.
C10_GridsMatchAfterInit ==
    /\ ~outOfRange
    /\ pc \in {"classified", "glutMainLoop"} =>
           /\ IsSquare(terrainHeights, TERRAIN_SIZE + 1)
           /\ IsSquare(terrainTextures, TERRAIN_SIZE + 1)
    /\ pc \in {"generateMultiTextureTerrain", "texRow", "texCell"} =>
           /\ IsSquare(terrainHeights, TERRAIN_SIZE + 1)
           /\ Len(terrainTextures) <= TERRAIN_SIZE + 1
           /\ \A k \in 1..Len(terrainTextures) :
                  Len(terrainTextures[k]) \in {0, TERRAIN_SIZE + 1}

\* drawTerrain has run on the finished grids after an update().
C10_Witness ==
    /\ pc = "glutMainLoop"
    /\ animationEnabled
    /\ sceneAngle = 2
    /\ updatesSinceDisplay = 0
    /\ ~redisplayPending

\* C12: for every accumulated time an update() can produce,
\* |nacelle_yaw| <= 15.0 and |towerSway| <= 0.8.
C12_OscillationsBounded ==
    /\ nacelle_yaw >= -15000 /\ nacelle_yaw <= 15000
    /\ towerSway >= -800 /\ towerSway <= 800

\* An update() has brought the yaw within 0.1 degree of its upper bound.
C12_Witness ==
    /\ frozen = NoSnapshot
    /\ sceneAngle = 2 * (OscTicks + 1)
    /\ nacelle_yaw >= 14900

\* C11: the three blades of every rotor drawn are rotated about the local X
\* axis by bladeRotation + i * 120 degrees, i = 0, 1, 2, so any two blades of
\* a rotor differ by 120 degrees modulo 360, and every turbine drawn in the
\* frame uses the same bladeRotation.
C11_BladesOffset120 ==
    /\ Len(rotorAngles) <= 3
    /\ \A r \in 1..Len(rotorAngles) :
          /\ Len(rotorAngles[r]) <= 3
          /\ \A k1 \in 1..Len(rotorAngles[r]) : \A k2 \in 1..Len(rotorAngles[r]) :
                k1 # k2 =>
                    (rotorAngles[r][k1] - rotorAngles[r][k2]) % 360000
                        \in {120000, 240000}
          /\ pc = "display" =>
                \A k \in 1..Len(rotorAngles[r]) :
                    rotorAngles[r][k] = bladeRotation * 100 + (k - 1) * 120000

\* The third rotor of a frame drawn after an update() has its three blades.
C11_Witness ==
    /\ pc = "display"
    /\ sceneAngle = 2 * (OscTicks + 1)
    /\ bladeRotation > 0
    /\ Len(rotorAngles) = 3
    /\ Len(rotorAngles[3]) = 3

\* A mesh generator entered with a zero or negative segment count.
DegenerateCall(e) ==
    \/ e.fn = "drawEllipsoid" /\ e.args[4] <= 0
    \/ e.fn = "drawTorus" /\ (e.args[3] <= 0 \/ e.args[4] <= 0)
    \/ e.fn = "drawBlade" /\ turbineParams.bladeSegments <= 0

\* C13: drawEllipsoid, drawTorus and drawBlade called with a segment count
\* that is zero or negative emit no vertex and perform no division by the
\* segment count.
C13_EmptyMeshNoDivision ==
    \A k \in 1..Len(callStack) :
        DegenerateCall(callStack[k]) =>
            /\ vertexCount = callStack[k].vertices
            /\ segDivs = callStack[k].divs

\* C14: in the turbine's frame the foundation cylinder has its top face at
\* y = 0, the tower frustum runs from y = foundationHeight to
\* y = foundationHeight + height, and the nacelle is placed at that height.
C14_FoundationTopAtZero ==
    LET fh == Milli(turbineParams.foundationHeight)
        h == Milli(turbineParams.height)
    IN  /\ lastSolid.caller = "drawFoundation" =>
               Max(lastSolid.from[2], lastSolid.to[2]) = 0
        /\ lastSolid.caller = "drawTurbineTower" =>
               /\ lastSolid.from[2] = fh
               /\ lastSolid.to[2] = fh + h
        /\ TopRoutine = "drawNacelle" =>
               InTurbineFrame(callStack[1].origin)[2] = fh + h

\* C15: every vertex of a blade is drawn under a twist about the length
\* axis of 25 degrees times its normalized length position, so the tip is
\* drawn with 25 degrees and the end of a segment with the twist of the
\* start of the next.
C15_TwistLinearToTip ==
    lastVertex.routine = "drawBlade" =>
        lastVertex.rot = <<25 * lastVertex.t, AxisY>>

\* C16: every draw routine returns with the matrix stack at the depth it
\* was entered with, no glPopMatrix is issued at the depth display() started
\* with, and the depth never exceeds that depth by more than 6.
C16_MatrixStackBalanced ==
    [][ /\ DoReturn => Len(matrixStack) = callStack[1].depth
        /\ DoPopMatrix => Len(matrixStack) > 1
        /\ ~glUnderflow'
        /\ Len(matrixStack') <= 1 + 6
        /\ displayEnd => Len(matrixStack) = 1 ]_vars

\* A blade segment is being drawn six levels above the start of display().
C16_Witness ==
    /\ pc = "display"
    /\ TopRoutine = "drawBlade"
    /\ Len(matrixStack) = 1 + 6
    /\ Len(rotorAngles) = 3

====
